---- MODULE Spec2Model ----
(***************************************************************************)
(* A model of dpop: the LAMDA database parser (src/dpop/db.py) and the     *)
(* population diagram calculator _PopDiagram (src/dpop/diagram.py).        *)
(*                                                                         *)
(* SpecParse runs the parse of LAMDA.__init__ on one text stream, one      *)
(* f.readline() per step.  An exception that leaves the constructor is     *)
(* kept in err; the code raises Python's own IndexError and ValueError     *)
(* and defines no exception class.                                         *)
(*                                                                         *)
(* Spec runs input(), calc() and clear() calls on one _PopDiagram          *)
(* instance.  The db it is built with is an instance of LAMDA, or an       *)
(* object of a class outside db.py that offers what _PopDiagram uses of    *)
(* it: a call with a transition, Z and Z_diff.  The exception a call       *)
(* raises is kept in exc, and calls keeps the calls made so far.           *)
(***************************************************************************)
EXTENDS Integers, Sequences, FiniteSets, TLC

(***************************************************************************)
(* Bounds of the model.                                                    *)
(***************************************************************************)
MaxLevels == 2

MaxTrans == 2

MaxEofReads == 2

MaxCalls == 3

(***************************************************************************)
(* Text.  A line is the sequence of its whitespace-separated tokens        *)
(* (str.split()); a token is a string.  readline() at end of stream        *)
(* returns '', whose split is the empty sequence.                          *)
(***************************************************************************)
NumTokens == <<"0", "1", "2", "3", "4", "5", "6", "7", "8", "9">>

\* the token written for the number n
Tok(n) == NumTokens[n + 1]

\* whether int(token) / float(token) succeeds
IsNumber(t) == \E n \in 1..Len(NumTokens) : NumTokens[n] = t

\* int(token) / float(token) of a numeric token
NumberOf(t) == (CHOOSE n \in 1..Len(NumTokens) : NumTokens[n] = t) - 1

\* re.search('ENERGY LEVELS$', line)
MatchesEnergyLevels(l) ==
    Len(l) >= 2 /\ l[Len(l) - 1] = "ENERGY" /\ l[Len(l)] = "LEVELS"

\* re.search('RADIATIVE TRANSITIONS$', line)
MatchesRadiativeTransitions(l) ==
    Len(l) >= 2 /\ l[Len(l) - 1] = "RADIATIVE" /\ l[Len(l)] = "TRANSITIONS"

\* re.search('^!LEVEL', line)
MatchesLevelHeader(l) == Len(l) >= 1 /\ l[1] = "!LEVEL"

\* re.search('^!TRANS', line)
MatchesTransHeader(l) == Len(l) >= 1 /\ l[1] = "!TRANS"

Matches(pattern, l) ==
    CASE pattern = "ENERGY LEVELS$" -> MatchesEnergyLevels(l)
      [] pattern = "RADIATIVE TRANSITIONS$" -> MatchesRadiativeTransitions(l)
      [] pattern = "^!LEVEL" -> MatchesLevelHeader(l)
      [] pattern = "^!TRANS" -> MatchesTransHeader(l)

(***************************************************************************)
(* The streams the parser is run on.                                       *)
(***************************************************************************)
LevelIds == {"J0", "J1"}

LevelRow(i, id) == <<Tok(i), Tok(2 * i), Tok(2 * i + 1), id>>

TransRow(i, ul) == <<Tok(i), Tok(ul[1]), Tok(ul[2]), Tok(1), Tok(3 + i), Tok(5 + i)>>

IndexPairs == {ul \in (1..MaxLevels) \X (1..MaxLevels) : ul[1] # ul[2]}

\* the levels block: marker, count, header, data rows
LevelsBlock(marker, declared, ids) ==
    (IF marker THEN <<(<<"!NUMBER", "OF", "ENERGY", "LEVELS">>)>> ELSE <<>>)
    \o <<(<<Tok(declared)>>)>>
    \o <<(<<"!LEVEL", "+", "ENERGIES", "+", "WEIGHT", "+", "J">>)>>
    \o [i \in 1..Len(ids) |-> LevelRow(i, ids[i])]

\* the transitions block: marker, count, header, data rows
TransBlock(marker, declared, uls) ==
    (IF marker THEN <<(<<"!NUMBER", "OF", "RADIATIVE", "TRANSITIONS">>)>> ELSE <<>>)
    \o <<(<<Tok(declared)>>)>>
    \o <<(<<"!TRANS", "+", "UP", "+", "LOW", "+", "EINSTEINA", "+", "FREQ", "+", "E_u">>)>>
    \o [i \in 1..Len(uls) |-> TransRow(i, uls[i])]

SeqsUpTo(S, n) == UNION {[1..k -> S] : k \in 0..n}

\* a stream's description: which markers it has, the counts it declares and
\* the data rows it holds (short = 1: one row fewer than declared)
StreamShapes ==
    [lvMarker : BOOLEAN, trMarker : BOOLEAN,
     ids : SeqsUpTo(LevelIds, MaxLevels), lvShort : {0, 1},
     uls : SeqsUpTo(IndexPairs, MaxTrans), trShort : {0, 1}]

StreamOf(sh) ==
    <<(<<"!MOLECULE">>), (<<"CO">>)>>
    \o LevelsBlock(sh.lvMarker, Len(sh.ids) + sh.lvShort, sh.ids)
    \o TransBlock(sh.trMarker, Len(sh.uls) + sh.trShort, sh.uls)

VARIABLES
    shape,          \* the description the stream was built from
    stream,         \* f: the lines of the file
    pos,            \* f's position: the number of lines consumed
    pc,             \* where LAMDA.__init__'s parse stands
    line,           \* the line last returned by f.readline()
    eofReads,       \* readline() calls that returned '' (end of stream)
    n,              \* n_levels / n_transitions
    i,              \* the data loop's counter
    energy_levels,  \* the OrderedDict built by _get_energy_levels
    levels,         \* list(self.energy_levels.keys())
    transitions,    \* the OrderedDict built by _get_transitions
    err,            \* the exception that left LAMDA.__init__, or "none"
    instance        \* the LAMDA object the caller holds: <<>> or <<object>>

pvars == <<shape, stream, pos, pc, line, eofReads, n, i, energy_levels, levels,
           transitions, err, instance>>

(***************************************************************************)
(* Python containers.                                                      *)
(***************************************************************************)
\* an OrderedDict is the sequence of its items, in insertion order
Keys(d) == [j \in 1..Len(d) |-> d[j].key]

HasKey(d, k) == \E j \in 1..Len(d) : d[j].key = k

\* d[k] = v: a new key is appended, an existing key keeps its place
DictSet(d, k, v) ==
    IF HasKey(d, k)
    THEN [j \in 1..Len(d) |-> IF d[j].key = k THEN [key |-> k, val |-> v] ELSE d[j]]
    ELSE Append(d, [key |-> k, val |-> v])

\* whether lst[idx] is an element (a negative idx counts from the end)
ListIndexOk(lst, idx) == idx < Len(lst) /\ idx >= 0 - Len(lst)

ListGet(lst, idx) == IF idx >= 0 THEN lst[idx + 1] ELSE lst[Len(lst) + idx + 1]

Min(p, q) == IF p <= q THEN p ELSE q

(***************************************************************************)
(* f.readline()                                                            *)
(***************************************************************************)
AtEof == pos >= Len(stream)

ReadLine ==
    /\ line' = IF AtEof THEN <<>> ELSE stream[pos + 1]
    /\ pos' = IF AtEof THEN pos ELSE pos + 1
    /\ eofReads' = IF AtEof THEN Min(eofReads + 1, MaxEofReads) ELSE eofReads

Raise(e) ==
    /\ pc' = "raised"
    /\ err' = e

(***************************************************************************)
(* DataBase._skip_lines: one pass of its while loop.  The loop is left     *)
(* only by a line that matches; at end of stream readline() returns ''     *)
(* which never matches.                                                    *)
(***************************************************************************)
SkipLines(pattern, at, next) ==
    /\ pc = at
    /\ ReadLine
    /\ pc' = IF Matches(pattern, line') THEN next ELSE at
    /\ UNCHANGED <<shape, stream, n, i, energy_levels, levels, transitions, err, instance>>

\* the exception int(f.readline()) raises, or "none"
CountError(l) ==
    IF Len(l) = 1 /\ IsNumber(l[1]) THEN "none" ELSE "ValueError"

\* n_levels = int(f.readline()) / n_transitions = int(f.readline())
ReadCount(at, next) ==
    /\ pc = at
    /\ ReadLine
    /\ IF CountError(line') = "none"
       THEN /\ n' = NumberOf(line'[1])
            /\ i' = 0
            /\ pc' = next
            /\ err' = err
       ELSE /\ Raise(CountError(line'))
            /\ UNCHANGED <<n, i>>
    /\ UNCHANGED <<shape, stream, energy_levels, levels, transitions, instance>>

\* the exception the body of _get_energy_levels' loop raises on elems, or "none"
LevelRowError(elems) ==
    IF Len(elems) < 2 THEN "IndexError"
    ELSE IF ~IsNumber(elems[2]) THEN "ValueError"
    ELSE IF Len(elems) < 3 THEN "IndexError"
    ELSE IF ~IsNumber(elems[3]) THEN "ValueError"
    ELSE IF Len(elems) < 4 THEN "IndexError"
    ELSE "none"

LevelVal(elems) == [energy |-> NumberOf(elems[2]), weight |-> NumberOf(elems[3])]

SkipToLevels == SkipLines("ENERGY LEVELS$", "lv_marker", "lv_count")

ReadLevelCount == ReadCount("lv_count", "lv_header")

SkipLevelHeader == SkipLines("^!LEVEL", "lv_header", "lv_data")

\* one pass of the loop of _get_energy_levels
ReadLevel ==
    /\ pc = "lv_data"
    /\ i < n
    /\ ReadLine
    /\ IF LevelRowError(line') = "none"
       THEN /\ energy_levels' = DictSet(energy_levels, line'[4], LevelVal(line'))
            /\ i' = i + 1
            /\ UNCHANGED <<pc, err>>
       ELSE /\ Raise(LevelRowError(line'))
            /\ UNCHANGED <<energy_levels, i>>
    /\ UNCHANGED <<shape, stream, n, levels, transitions, instance>>

\* _get_energy_levels returns; _get_transitions starts
EnterTransitions ==
    /\ pc = "lv_data"
    /\ i = n
    /\ levels' = Keys(energy_levels)
    /\ pc' = "tr_marker"
    /\ UNCHANGED <<shape, stream, pos, line, eofReads, n, i, energy_levels,
                   transitions, err, instance>>

SkipToTransitions == SkipLines("RADIATIVE TRANSITIONS$", "tr_marker", "tr_count")

ReadTransCount == ReadCount("tr_count", "tr_header")

SkipTransHeader == SkipLines("^!TRANS", "tr_header", "tr_data")

\* the exception levels[int(elems[k])-1] raises, or "none" (tok is elems[k])
LevelRefError(lst, elems, k) ==
    IF Len(elems) < k + 1 THEN "IndexError"
    ELSE IF ~IsNumber(elems[k + 1]) THEN "ValueError"
    ELSE IF ~ListIndexOk(lst, NumberOf(elems[k + 1]) - 1) THEN "IndexError"
    ELSE "none"

\* the exception float(elems[k]) raises, or "none"
FloatError(elems, k) ==
    IF Len(elems) < k + 1 THEN "IndexError"
    ELSE IF ~IsNumber(elems[k + 1]) THEN "ValueError"
    ELSE "none"

\* the exception the body of _get_transitions' loop raises on elems, or "none"
TransRowError(lst, elems) ==
    IF LevelRefError(lst, elems, 1) # "none" THEN LevelRefError(lst, elems, 1)
    ELSE IF LevelRefError(lst, elems, 2) # "none" THEN LevelRefError(lst, elems, 2)
    ELSE IF FloatError(elems, 3) # "none" THEN FloatError(elems, 3)
    ELSE IF FloatError(elems, 4) # "none" THEN FloatError(elems, 4)
    ELSE FloatError(elems, 5)

\* levels[int(elems[k])-1]
LevelRef(lst, elems, k) == ListGet(lst, NumberOf(elems[k + 1]) - 1)

\* TransKey with the two levels taken in the other order
TransKeySwapped(lst, elems) == <<LevelRef(lst, elems, 2), LevelRef(lst, elems, 1)>>

TransKey(lst, elems) == <<LevelRef(lst, elems, 1), LevelRef(lst, elems, 2)>>

TransVal(elems) ==
    [A_ul |-> NumberOf(elems[4]), f_rest |-> NumberOf(elems[5]), E_u |-> NumberOf(elems[6])]

\* one pass of the loop of _get_transitions
ReadTransition ==
    /\ pc = "tr_data"
    /\ i < n
    /\ ReadLine
    /\ IF TransRowError(levels, line') = "none"
       THEN /\ transitions' = DictSet(transitions, TransKey(levels, line'), TransVal(line'))
            /\ i' = i + 1
            /\ UNCHANGED <<pc, err>>
       ELSE /\ Raise(TransRowError(levels, line'))
            /\ UNCHANGED <<transitions, i>>
    /\ UNCHANGED <<shape, stream, n, energy_levels, levels, instance>>

\* _get_transitions returns and LAMDA.__init__ with it: the caller holds the object
Construct ==
    /\ pc = "tr_data"
    /\ i = n
    /\ instance' = <<[energy_levels |-> energy_levels, transitions |-> transitions]>>
    /\ pc' = "done"
    /\ UNCHANGED <<shape, stream, pos, line, eofReads, n, i, energy_levels, levels,
                   transitions, err>>

ParseInit ==
    /\ shape \in StreamShapes
    /\ stream = StreamOf(shape)
    /\ pos = 0
    /\ pc = "lv_marker"
    /\ line = <<>>
    /\ eofReads = 0
    /\ n = 0
    /\ i = 0
    /\ energy_levels = <<>>
    /\ levels = <<>>
    /\ transitions = <<>>
    /\ err = "none"
    /\ instance = <<>>

\* no parse is running
ParseIdle ==
    /\ shape = [lvMarker |-> TRUE, trMarker |-> TRUE, ids |-> <<>>, lvShort |-> 0,
                uls |-> <<>>, trShort |-> 0]
    /\ stream = <<>>
    /\ pos = 0
    /\ pc = "idle"
    /\ line = <<>>
    /\ eofReads = 0
    /\ n = 0
    /\ i = 0
    /\ energy_levels = <<>>
    /\ levels = <<>>
    /\ transitions = <<>>
    /\ err = "none"
    /\ instance = <<>>

(***************************************************************************)
(* Floating point numbers, as far as calc() needs them: a number is the    *)
(* fraction num/den in lowest terms with den > 0; den = 0 holds the        *)
(* values division by zero produces: 1/0 is inf, -1/0 is -inf, 0/0 is nan. *)
(***************************************************************************)
RECURSIVE Gcd(_, _)
Gcd(p, q) == IF q = 0 THEN p ELSE Gcd(q, p % q)

Abs(p) == IF p < 0 THEN 0 - p ELSE p

Sign(p) == IF p < 0 THEN 0 - 1 ELSE IF p > 0 THEN 1 ELSE 0

\* the number num/den for den >= 0
Frac(num, den) ==
    IF den = 0 THEN [num |-> Sign(num), den |-> 0]
    ELSE [num |-> num \div Gcd(Abs(num), den), den |-> den \div Gcd(Abs(num), den)]

Num(k) == [num |-> k, den |-> 1]

NaN == [num |-> 0, den |-> 0]

IsNaN(p) == p.den = 0 /\ p.num = 0

IsInf(p) == p.den = 0 /\ p.num # 0

IsZero(p) == p.den # 0 /\ p.num = 0

FMul(p, q) == Frac(p.num * q.num, p.den * q.den)

FAdd(p, q) ==
    IF p.den = 0 /\ q.den = 0
    THEN (IF p.num = q.num THEN p ELSE NaN)
    ELSE Frac(p.num * q.den + q.num * p.den, p.den * q.den)

FNeg(p) == [num |-> 0 - p.num, den |-> p.den]

FSub(p, q) == FAdd(p, FNeg(q))

\* p ** (-1)
FInv(p) == IF p.num < 0 THEN Frac(0 - p.den, 0 - p.num) ELSE Frac(p.den, p.num)

FDiv(p, q) == FMul(p, FInv(q))

\* np.sum of a sequence of numbers; 0.0 for the empty one
RECURSIVE FSum(_)
FSum(s) == IF s = <<>> THEN Num(0) ELSE FAdd(s[1], FSum(Tail(s)))

(***************************************************************************)
(* Results that are not fractions (roots, logarithms, powers, the          *)
(* partition function) are held by their class: "nan", "inf", "zero" or    *)
(* "finite" (finite and not zero).                                         *)
(***************************************************************************)
Class(p) ==
    IF IsNaN(p) THEN "nan" ELSE IF IsInf(p) THEN "inf"
    ELSE IF IsZero(p) THEN "zero" ELSE "finite"

\* np.sqrt(p)
SqrtClass(p) ==
    IF IsNaN(p) \/ p.num < 0 THEN "nan" ELSE Class(p)

ClassMul(c, d) ==
    IF c = "nan" \/ d = "nan" THEN "nan"
    ELSE IF (c = "inf" /\ d = "zero") \/ (c = "zero" /\ d = "inf") THEN "nan"
    ELSE IF c = "inf" \/ d = "inf" THEN "inf"
    ELSE IF c = "zero" \/ d = "zero" THEN "zero"
    ELSE "finite"

\* np.sqrt(c**2 + d**2)
ClassHypot(c, d) ==
    IF c = "nan" \/ d = "nan" THEN "nan"
    ELSE IF c = "inf" \/ d = "inf" THEN "inf"
    ELSE IF c = "zero" /\ d = "zero" THEN "zero"
    ELSE "finite"

\* 10**p
Pow10Class(p) ==
    IF IsNaN(p) THEN "nan"
    ELSE IF IsInf(p) THEN (IF p.num > 0 THEN "inf" ELSE "zero")
    ELSE "finite"

\* LAMDA.Z(T_ex) for a temperature of class c: the sum of g*exp(-E/(k*T_ex))
\* over the levels, the lowest of which has E = 0
ZClass(c) == IF c = "nan" \/ c = "zero" THEN "nan" ELSE "finite"

\* db.Z_diff(T_ex): the sum of g*E/(k*T_ex**2)*exp(-E/(k*T_ex))
ZdiffClass(c) ==
    IF c = "nan" \/ c = "zero" THEN "nan" ELSE IF c = "inf" THEN "zero" ELSE "finite"

(***************************************************************************)
(* The population diagram calculator, _PopDiagram.                         *)
(***************************************************************************)
\* the names bound in module dpop.diagram when input() runs: its imports,
\* its module constants and its classes
ModuleNames == {"dpop", "np", "plt", "u", "constants", "c", "h", "k",
                "OrderedDict", "PopDiagram", "_PopDiagram"}

\* the objects handed to _PopDiagram(db): an instance of the LAMDA class of
\* db.py, or an object of another class that can be called with a transition
\* and has the methods Z and Z_diff
DbKinds == {"LAMDA", "Callable"}

\* whether db(upper_level, lower_level) is a call: LAMDA and DataBase define
\* no __call__
DbCallable(kind) == kind = "Callable"

\* whether db.Z_diff is an attribute: LAMDA has Z and dZdT
DbHasZdiff(kind) == kind = "Callable"

\* the molecule's levels and the transitions of the database, with the
\* upper level's energy E_u (K) and log10 of 8*pi*k/(h*c**3)*f_rest**2/A_ul/g_u
LevelNames == {"J0", "J1", "J2"}

DbTransitions ==
    <<[key |-> <<"J1", "J0">>, val |-> [E_u |-> 6, log10_coeff |-> 3]],
      [key |-> <<"J2", "J1">>, val |-> [E_u |-> 17, log10_coeff |-> 2]]>>

DbKeys == {DbTransitions[j].key : j \in 1..Len(DbTransitions)}

\* db(upper_level, lower_level) for a transition of the database
DbLookup(upper, lower) ==
    DbTransitions[CHOOSE j \in 1..Len(DbTransitions) :
                    DbTransitions[j].key = <<upper, lower>>].val

\* the values input() is called with
IbValues == {1, 10}

IbErrorValues == {0, 1}

\* np.log10 of the values above
Log10(v) == IF v = 1 THEN 0 ELSE 1

None == <<>>

\* an attribute the instance does not have
NoAttr == <<>>

VARIABLES
    db,             \* self.db, by its kind
    x, y, y_error, x_label,        \* the dataset
    a, a_error, b, b_error,        \* the fit: None, or <<value>>
    T_ex, T_ex_error, N_tot, N_tot_error,
    T_ex_result, N_tot_result,     \* the result texts: NoAttr, or <<text>>
    exc,            \* the exception the last call raised, or "none"
    calls           \* the calls made on the instance, oldest first

dataset == <<x, y, y_error, x_label>>

fit == <<a, a_error, b, b_error, T_ex, T_ex_error, N_tot, N_tot_error>>

dvars == <<db, x, y, y_error, x_label, a, a_error, b, b_error, T_ex, T_ex_error,
           N_tot, N_tot_error, T_ex_result, N_tot_result, exc, calls>>

vars == <<pvars, dvars>>

Call(op, upper, lower, I_b, I_b_error, e) ==
    [op |-> op, upper |-> upper, lower |-> lower, I_b |-> I_b,
     I_b_error |-> I_b_error, exc |-> e]

\* the exception input() raises before it reaches its np.append calls, or
\* "none": db(...) is not a call, the transition is not in the database,
\* the name pi is not bound
InputError(kind, upper, lower) ==
    IF ~DbCallable(kind) THEN "TypeError"
    ELSE IF <<upper, lower>> \notin DbKeys THEN "LookupError"
    ELSE IF "pi" \notin ModuleNames THEN "NameError"
    ELSE "none"

\* y = np.log10((N_u/d['g_u']).value)
InputY(d, I_b) == Num(d.log10_coeff + Log10(I_b))

\* y_error = (N_u_error/N_u/np.log(10)).value with N_u_error = N_u*I_b_error/I_b,
\* in units of 1/ln(10)
InputYError(I_b, I_b_error) == FDiv(Num(I_b_error), Num(I_b))

InputLabel(upper, lower) == <<"molname", upper, lower>>

\* the four np.append calls
AppendPoint(upper, lower, I_b, I_b_error) ==
    /\ x' = Append(x, Num(DbLookup(upper, lower).E_u))
    /\ y' = Append(y, InputY(DbLookup(upper, lower), I_b))
    /\ y_error' = Append(y_error, InputYError(I_b, I_b_error))
    /\ x_label' = Append(x_label, InputLabel(upper, lower))

Input(upper, lower, I_b, I_b_error) ==
    /\ Len(calls) < MaxCalls
    /\ exc' = InputError(db, upper, lower)
    /\ IF exc' = "none"
       THEN AppendPoint(upper, lower, I_b, I_b_error)
       ELSE UNCHANGED dataset
    /\ calls' = Append(calls, Call("input", upper, lower, I_b, I_b_error, exc'))
    /\ UNCHANGED <<db, fit, T_ex_result, N_tot_result>>

Clear ==
    /\ Len(calls) < MaxCalls
    /\ y' = <<>>
    /\ x' = <<>>
    /\ x_label' = <<>>
    /\ y_error' = <<>>
    /\ a' = None /\ a_error' = None
    /\ b' = None /\ b_error' = None
    /\ T_ex' = None /\ T_ex_error' = None
    /\ N_tot' = None /\ N_tot_error' = None
    /\ exc' = "none"
    /\ calls' = Append(calls, Call("clear", "", "", 0, 0, "none"))
    /\ UNCHANGED <<db, T_ex_result, N_tot_result>>

\* w = self.y_error**(-2)
Weights(ye) == [j \in 1..Len(ye) |-> FInv(FMul(ye[j], ye[j]))]

Products(s, t) == [j \in 1..Len(s) |-> FMul(s[j], t[j])]

\* the sums, D, a, b and their errors, of the dataset xs, ys, ye
CalcFit(xs, ys, ye) ==
    LET w == Weights(ye)
        sum_w == FSum(w)
        sum_wx == FSum(Products(w, xs))
        sum_wy == FSum(Products(w, ys))
        sum_wxx == FSum(Products(w, Products(xs, xs)))
        sum_wxy == FSum(Products(Products(w, xs), ys))
        D == FSub(FMul(sum_w, sum_wxx), FMul(sum_wx, sum_wx))
    IN  [D |-> D,
         a |-> FDiv(FSub(FMul(sum_wy, sum_wxx), FMul(sum_wxy, sum_wx)), D),
         b |-> FDiv(FSub(FMul(sum_w, sum_wxy), FMul(sum_wx, sum_wy)), D),
         a_error |-> SqrtClass(FDiv(sum_wxx, D)),
         b_error |-> SqrtClass(FDiv(sum_w, D))]

\* T_ex = -b**(-1)/np.log(10)
CalcTex(f) == Class(FInv(f.b))

\* T_ex_error = b_error*b**(-2)/np.log(10)
CalcTexError(f) == ClassMul(f.b_error, Class(FInv(FMul(f.b, f.b))))

\* N_tot = self.db.Z(self.T_ex) * 10**a
CalcNtot(f) == ClassMul(ZClass(CalcTex(f)), Pow10Class(f.a))

\* N_tot_error = np.sqrt(elem_1**2 + elem_2**2) * 10**a
CalcNtotError(f) ==
    ClassMul(ClassHypot(ClassMul(ZdiffClass(CalcTex(f)), CalcTexError(f)),
                        ClassMul(ZClass(CalcTex(f)), f.a_error)),
             Pow10Class(f.a))

\* the exception calc() raises, or "none": numpy divides by zero into nan and
\* inf with a warning; self.db.Z_diff is read after a, b and T_ex are stored
CalcError(kind) == IF ~DbHasZdiff(kind) THEN "AttributeError" ELSE "none"

Calc ==
    /\ Len(calls) < MaxCalls
    /\ LET f == CalcFit(x, y, y_error) IN
        /\ a' = <<f.a>> /\ a_error' = <<f.a_error>>
        /\ b' = <<f.b>> /\ b_error' = <<f.b_error>>
        /\ T_ex' = <<CalcTex(f)>> /\ T_ex_error' = <<CalcTexError(f)>>
        /\ exc' = CalcError(db)
        /\ IF exc' = "none"
           THEN /\ N_tot' = <<CalcNtot(f)>>
                /\ N_tot_error' = <<CalcNtotError(f)>>
                /\ T_ex_result' = <<(<<"T_ex", CalcTex(f), CalcTexError(f)>>)>>
                /\ N_tot_result' = <<(<<"N_tot", CalcNtot(f), CalcNtotError(f)>>)>>
           ELSE UNCHANGED <<N_tot, N_tot_error, T_ex_result, N_tot_result>>
    /\ calls' = Append(calls, Call("calc", "", "", 0, 0, exc'))
    /\ UNCHANGED <<db, dataset>>

\* _PopDiagram(db): self.db = db; self.clear()
DiagramInit(kinds) ==
    /\ db \in kinds
    /\ x = <<>> /\ y = <<>> /\ y_error = <<>> /\ x_label = <<>>
    /\ a = None /\ a_error = None /\ b = None /\ b_error = None
    /\ T_ex = None /\ T_ex_error = None /\ N_tot = None /\ N_tot_error = None
    /\ T_ex_result = NoAttr /\ N_tot_result = NoAttr
    /\ exc = "none"
    /\ calls = <<>>

InputCall ==
    \E upper \in LevelNames, lower \in LevelNames, I_b \in IbValues,
       I_b_error \in IbErrorValues : Input(upper, lower, I_b, I_b_error)

Init == ParseIdle /\ DiagramInit(DbKinds)

Next ==
    \/ InputCall /\ UNCHANGED pvars
    \/ Calc /\ UNCHANGED pvars
    \/ Clear /\ UNCHANGED pvars

Spec == Init /\ [][Next]_vars

InitParse == ParseInit /\ DiagramInit({"LAMDA"})

NextParse ==
    \/ SkipToLevels /\ UNCHANGED dvars
    \/ ReadLevelCount /\ UNCHANGED dvars
    \/ SkipLevelHeader /\ UNCHANGED dvars
    \/ ReadLevel /\ UNCHANGED dvars
    \/ EnterTransitions /\ UNCHANGED dvars
    \/ SkipToTransitions /\ UNCHANGED dvars
    \/ ReadTransCount /\ UNCHANGED dvars
    \/ SkipTransHeader /\ UNCHANGED dvars
    \/ ReadTransition /\ UNCHANGED dvars
    \/ Construct /\ UNCHANGED dvars

SpecParse == InitParse /\ [][NextParse]_vars

(***************************************************************************)
(* The parser's properties (under SpecParse).                              *)
(***************************************************************************)
Distinct(s) == \A j, m \in 1..Len(s) : s[j] = s[m] => j = m

\* a stream of the file format: both markers, as many data rows as declared,
\* every level index a position of the levels block
InFormat(sh) ==
    /\ sh.lvMarker /\ sh.trMarker
    /\ sh.lvShort = 0 /\ sh.trShort = 0
    /\ \A j \in 1..Len(sh.uls) : sh.uls[j][1] <= Len(sh.ids) /\ sh.uls[j][2] <= Len(sh.ids)

\* the key of the stream's j-th transition: the identifiers of the levels at
\* the positions its row gives
ExpectedKey(sh, j) == <<sh.ids[sh.uls[j][1]], sh.ids[sh.uls[j][2]]>>

ResultAsDeclared(sh) ==
    /\ Len(instance) = 1
    /\ Keys(instance[1].energy_levels) = sh.ids
    /\ Len(instance[1].transitions) = Len(sh.uls)
    /\ \A j \in 1..Len(sh.uls) : instance[1].transitions[j].key = ExpectedKey(sh, j)

\* C5 as stated: for every stream of the format declaring N levels and M
\* transitions, the parse yields N levels in file order and M transitions,
\* each keyed by the identifiers of the levels at its two positions.
C5_ParseAsDeclared ==
    (InFormat(shape) /\ pc = "done") => ResultAsDeclared(shape)

\* C5 as amended: the same for the streams of the format whose level
\* identifiers are pairwise distinct and whose transitions join pairwise
\* distinct pairs of levels; such a parse raises nothing and never reads at
\* the end of the stream.
C5_ParseDistinctAsDeclared ==
    (InFormat(shape) /\ Distinct(shape.ids) /\ Distinct(shape.uls))
        => /\ pc # "raised"
           /\ eofReads = 0
           /\ pc = "done" => ResultAsDeclared(shape)

\* C5, witness: a finished parse of two levels and two transitions
C5_Witness ==
    /\ pc = "done"
    /\ InFormat(shape) /\ Distinct(shape.ids) /\ Distinct(shape.uls)
    /\ Len(shape.ids) = 2 /\ Len(shape.uls) = 2
    /\ Len(instance) = 1 /\ Len(instance[1].transitions) = 2

\* C4: a stream without the "ENERGY LEVELS" or the "RADIATIVE TRANSITIONS"
\* marker, its blocks otherwise as declared, is not parsed into a database:
\* the scan for the marker stops at the end of the stream (it reads '' at
\* most once) and the parse fails with ParseError.
C4_MissingMarkerFails ==
    (/\ ~(shape.lvMarker /\ shape.trMarker)
     /\ shape.lvShort = 0 /\ shape.trShort = 0 /\ pc # "idle")
        => /\ eofReads <= 1
           /\ pc # "done"
           /\ pc = "raised" => err = "ParseError"

\* C8: a stream with both markers whose levels or transitions block holds
\* fewer data rows than it declares fails with ParseError, and the caller
\* gets no database.
C8_TruncatedFails ==
    (/\ shape.lvMarker /\ shape.trMarker
     /\ (shape.lvShort = 1 \/ shape.trShort = 1))
        => /\ pc # "done"
           /\ instance = <<>>
           /\ pc = "raised" => err = "ParseError"

(***************************************************************************)
(* The diagram's properties (under Spec).                                  *)
(***************************************************************************)
Last == calls[Len(calls)]

\* an input() call the interface accepts: its transition is in the database
IsAcceptedInput(c) == c.op = "input" /\ <<c.upper, c.lower>> \in DbKeys

\* the index of the last clear() call, 0 when there is none
LastClear(cs) ==
    IF \E j \in 1..Len(cs) : cs[j].op = "clear"
    THEN CHOOSE j \in 1..Len(cs) :
            cs[j].op = "clear" /\ \A m \in (j + 1)..Len(cs) : cs[m].op # "clear"
    ELSE 0

\* the accepted input() calls since construction or the last clear()
Requested(cs) == SelectSeq(SubSeq(cs, LastClear(cs) + 1, Len(cs)), IsAcceptedInput)

FitAbsent ==
    /\ a = None /\ a_error = None /\ b = None /\ b_error = None
    /\ T_ex = None /\ T_ex_error = None /\ N_tot = None /\ N_tot_error = None

FitPresent ==
    /\ a # None /\ a_error # None /\ b # None /\ b_error # None
    /\ T_ex # None /\ T_ex_error # None /\ N_tot # None /\ N_tot_error # None

\* a calc() that raised nothing, with no calc() after it, came before the last call
FitThenNoCalc(cs) ==
    \E j \in 1..(Len(cs) - 1) :
        /\ cs[j].op = "calc" /\ cs[j].exc = "none"
        /\ \A m \in (j + 1)..Len(cs) : cs[m].op # "calc"

GoodPoints(cs) ==
    /\ Len(Requested(cs)) >= 2
    /\ \E j, m \in 1..Len(Requested(cs)) :
          DbLookup(Requested(cs)[j].upper, Requested(cs)[j].lower).E_u
            # DbLookup(Requested(cs)[m].upper, Requested(cs)[m].lower).E_u
    /\ \A j \in 1..Len(Requested(cs)) : Requested(cs)[j].I_b_error > 0

TooFewPoints == Len(x) < 2 \/ (Len(x) = 2 /\ x[1] = x[2])

\* C3: calc() on no point, on one point, or on two points of one x fails with
\* FitError, and a diagram that had no fit has none afterwards.
C3_CalcRejectsTooFewPoints ==
    (Len(calls) >= 1 /\ Last.op = "calc" /\ TooFewPoints)
        => /\ Last.exc = "FitError"
           /\ (\A j \in 1..(Len(calls) - 1) : calls[j].op # "calc") => FitAbsent

\* C6: an input() call whose pair of levels is no transition of the database
\* fails with LookupError and leaves the four sequences of the dataset as
\* they were.
C6_MissingTransitionFails ==
    [][(/\ Len(calls') = Len(calls) + 1
        /\ calls'[Len(calls')].op = "input"
        /\ ~IsAcceptedInput(calls'[Len(calls')]))
          => (exc' = "LookupError" /\ UNCHANGED dataset)]_vars

C9_ZeroErrorPoint ==
    [][/\ (/\ Len(calls') = Len(calls) + 1
           /\ IsAcceptedInput(calls'[Len(calls')])
           /\ calls'[Len(calls')].I_b_error = 0)
             => /\ exc' = "none"
                /\ Len(y_error') = Len(y_error) + 1
                /\ IsZero(y_error'[Len(y_error')])
       /\ (/\ Len(calls') = Len(calls) + 1
           /\ calls'[Len(calls')].op = "calc"
           /\ \E j \in 1..Len(y_error) : y_error[j].num <= 0)
             => (exc' = "FitError" /\ UNCHANGED fit)]_vars

\* the four sequences hold one element for each accepted input() call since
\* the last clear(), in the order of the calls
OnePointPerInput ==
    /\ Len(x) = Len(Requested(calls))
    /\ Len(y) = Len(x) /\ Len(y_error) = Len(x) /\ Len(x_label) = Len(x)
    /\ \A j \in 1..Len(x_label) :
          x_label[j] = InputLabel(Requested(calls)[j].upper, Requested(calls)[j].lower)

====
